---------------------------- MODULE Spec2Model ----------------------------
(***************************************************************************)
(* Battery dispatch optimizer (optimizer.py, main.py).                     *)
(*                                                                         *)
(* Units.  All quantities are exact integers:                              *)
(*   power            1/PowerScale kW   (25 kW = 250000)                   *)
(*   reported power   1/1000 kW         (np.round(x, 3))                   *)
(*   state of charge  1/(PowerScale*SocScale) kWh, SocScale = 760, which   *)
(*                    clears the denominators of eta = 19/20 and           *)
(*                    delta_t = 1/2 in the SOC recursion                   *)
(*   prices           1/100 currency unit                                  *)
(*   objective        the cvxpy objective times delta_t_den*100*PowerScale *)
(* A timestamp is a record [day, hh, mm]; a "HH:MM" string is the sequence *)
(* of its four digits.                                                     *)
(***************************************************************************)
EXTENDS Integers, Sequences, FiniteSets

VARIABLES
    load_data,        \* self.load_data
    pv_data,          \* self.pv_data
    prices,           \* self.prices
    time_index,       \* df['Time'], the argument of build_model
    fields,           \* names of the model attributes of Optimizer that are not None
    prob,             \* self.prob: the assembled program
    grid,             \* (charge, discharge) value pairs the solver may return per timestep
    status,           \* self.prob.status
    values,           \* the .value of every variable after prob.solve
    schedule,         \* the dict returned by solve
    error,            \* the exception that ended the run, if any
    results_written,  \* data/results.csv has been written
    pc                \* position of the run

vars == <<load_data, pv_data, prices, time_index, fields, prob, grid, status,
          values, schedule, error, results_written, pc>>

-----------------------------------------------------------------------------
(* Bounds of the model *)

MaxT == 2
MaxLongT == 10

(* Program constants *)

battery_capacity == 53
max_power == 25
eta_charge_num == 19
eta_charge_den == 20
eta_discharge_num == 19
eta_discharge_den == 20
delta_t_den == 2
decimals == 3

PowerScale == 10 ^ 4
SocScale == delta_t_den * eta_charge_den * eta_discharge_num
MaxPowerU == max_power * PowerScale
CapacityU == battery_capacity * PowerScale * SocScale

T == Len(load_data)

Max2(a, b) == IF a >= b THEN a ELSE b

RECURSIVE SeqMax(_)
SeqMax(s) == IF Len(s) = 1 THEN s[1] ELSE Max2(s[1], SeqMax(Tail(s)))

RECURSIVE SeqSum(_)
SeqSum(s) == IF s = <<>> THEN 0 ELSE s[1] + SeqSum(Tail(s))

-----------------------------------------------------------------------------
(* Time windows: build_model lines 55-65 *)

time_of_day(ts) == <<ts.hh, ts.mm>>

ParseTime(s) == <<s[1] * 10 + s[2], s[3] * 10 + s[4]>>

TimeLT(a, b) == a[1] < b[1] \/ (a[1] = b[1] /\ a[2] < b[2])

TimeGE(a, b) == ~TimeLT(a, b)

(* InWindow with the boundaries closed the other way: start < tod <= end *)
InWindowLeftOpen(tod, start, end) == TimeLT(start, tod) /\ ~TimeLT(end, tod)

(* lines 61 and 65 *)
InWindow(tod, start, end) == TimeGE(tod, start) /\ TimeLT(tod, end)

in_demand_window_of(ti, pr) ==
    [t \in 1..Len(ti) |->
        InWindow(time_of_day(ti[t]), ParseTime(pr.demand_charge_start),
                 ParseTime(pr.demand_charge_end))]

in_dr_window_of(ti, pr) ==
    [t \in 1..Len(ti) |->
        InWindow(time_of_day(ti[t]), ParseTime(pr.demand_response_start),
                 ParseTime(pr.demand_response_end))]

(* M_val_of without max_power and without the factor 10 *)
M_val_tight(ld, pv) == Max2(SeqMax(ld), SeqMax(pv))

(* Big-M constant: line 117 *)
M_val_of(ld, pv) == Max2(Max2(SeqMax(ld), SeqMax(pv)), MaxPowerU) * 10

(* export_revenue_array_of with the bonus replacing the base price *)
export_array_replace(n, pr, dr) ==
    [t \in 1..n |-> IF dr[t] THEN pr.demand_response_revenue ELSE pr.export_revenue]

(* Per-timestep export price: lines 124-125 *)
export_revenue_array_of(n, pr, dr) ==
    [t \in 1..n |-> IF dr[t] THEN pr.export_revenue + pr.demand_response_revenue
                             ELSE pr.export_revenue]

VarFields == {"p_charge", "p_discharge", "p_gridimport", "p_gridexport", "soc", "M", "y"}

NoProb == [set |-> FALSE, in_demand_window |-> <<>>, in_dr_window |-> <<>>,
           export_revenue_array |-> <<>>, M_val |-> 0]

NoValues == [has |-> FALSE, p_charge |-> <<>>, p_discharge |-> <<>>,
             p_gridimport |-> <<>>, p_gridexport |-> <<>>, soc |-> <<>>,
             M |-> 0, y |-> <<>>]

NoSchedule == [has |-> FALSE, battery_power |-> <<>>, meter |-> <<>>]

NoError == [kind |-> "none", message |-> "none"]

(* The line of build_model at which an empty series (T = 0) raises: cvxpy   *)
(* rejects a zero-length Variable (line 68), or accepts it and np.max of an *)
(* empty array raises (line 117).                                           *)
EmptySeriesRaiseLines == {68, 117}

(* Optimizer.build_model *)
Build ==
    /\ pc = "new"
    /\ IF T = 0
       THEN \E ln \in EmptySeriesRaiseLines :
               /\ fields' = IF ln = 117 THEN VarFields ELSE {}
               /\ prob' = NoProb
               /\ error' = [kind |-> "ValueError", message |-> "build"]
               /\ pc' = "build_failed"
       ELSE /\ fields' = VarFields \cup {"prob"}
            /\ prob' = [set |-> TRUE,
                        in_demand_window |-> in_demand_window_of(time_index, prices),
                        in_dr_window |-> in_dr_window_of(time_index, prices),
                        export_revenue_array |->
                            export_revenue_array_of(T, prices,
                                in_dr_window_of(time_index, prices)),
                        M_val |-> M_val_of(load_data, pv_data)]
            /\ error' = error
            /\ pc' = "built"
    /\ UNCHANGED <<load_data, pv_data, prices, time_index, grid, status, values,
                   schedule, results_written>>

-----------------------------------------------------------------------------
(* Constraints collected by build_model, one operator per constraint group *)

Abs(n) == IF n >= 0 THEN n ELSE -n

(* lines 86-88, multiplied by SocScale *)
SocNext(s, c, d) ==
    s + eta_charge_num * eta_discharge_num * c - eta_charge_den * eta_discharge_den * d

(* line 81 *)
InitialSocOK(s0) == s0 = 0

(* SocBoundsOK without line 89 *)
SocBoundsNoCap(s1) == s1 >= 0

(* lines 89-90 *)
SocBoundsOK(s1) == s1 <= CapacityU /\ s1 >= 0

(* line 94 *)
FinalSocOK(sT) == sT = 0

(* lines 68-69: nonneg=True *)
NonNegOK(c, d) == c >= 0 /\ d >= 0

(* lines 97-100 *)
PowerLimitsOK(c, d) == c <= MaxPowerU /\ d <= MaxPowerU

(* ChargePVOK without line 104 *)
ChargePVFree(t, c) == TRUE

(* lines 103-104 *)
ChargePVOK(t, c) == c <= pv_data[t]

(* lines 70-71: nonneg=True *)
MeterNonNegOK(imp, exp) == imp >= 0 /\ exp >= 0

(* lines 107-109 *)
BalanceOK(t, c, d, imp, exp) == imp - exp = load_data[t] - pv_data[t] + c - d

(* BigMOK without line 120 *)
BigMImportOnly(imp, exp, y) == imp <= prob.M_val * y

(* lines 118-120, with y boolean (line 76) *)
BigMOK(imp, exp, y) == imp <= prob.M_val * y /\ exp <= prob.M_val * (1 - y)

(* DemandOK without the test of line 113 *)
DemandAllSteps(a, m) == m >= 0 /\ \A t \in 1..T : m >= a.p_gridimport[t]

(* lines 112-114 and line 73 *)
DemandOK(a, m) ==
    m >= 0 /\ \A t \in 1..T : prob.in_demand_window[t] => m >= a.p_gridimport[t]

-----------------------------------------------------------------------------
(* The solver (prob.solve, line 135) is an external collaborator.  Its     *)
(* answers are modelled as the assignments that satisfy every constraint   *)
(* above, with the battery powers drawn from grid and the other variables  *)
(* from candidate values around the ones the equalities force.             *)

CycleIn == eta_charge_den * eta_discharge_den
CycleOut == eta_charge_num * eta_discharge_num

(* sub-milli-kW values; CycleIn charged and CycleOut discharged return the *)
(* state of charge to zero                                                 *)
FinePairs == {0, 6, CycleIn - 6, CycleIn} \X {0, 4, CycleOut - 4, CycleOut}

(* full-power steps, and values beyond the power and sign limits *)
FullIn == (MaxPowerU \div CycleIn) * CycleIn
FullOut == (MaxPowerU \div CycleIn) * CycleOut
LongPairs == {<<0, 0>>, <<FullIn, 0>>, <<0, FullOut>>, <<2 * FullIn, 0>>,
              <<0, 2 * FullOut>>, <<0 - FullIn, 0>>, <<0, 0 - FullOut>>}

Soc0Cands == {0} \cup {SocNext(0, q[1], 0) : q \in grid}

MeterCands(n) == {0, 1, n, 0 - n, Abs(n) + 1}

MCands(a) ==
    {0 - 1, 0, 1} \cup {a.p_gridimport[t] : t \in 1..T}
                  \cup {a.p_gridimport[t] + 1 : t \in 1..T}

(* The constraints of one timestep on the battery variables *)
BatteryStepOK(t, s, q) ==
    /\ NonNegOK(q[1], q[2])
    /\ PowerLimitsOK(q[1], q[2])
    /\ ChargePVOK(t, q[1])
    /\ SocBoundsOK(SocNext(s, q[1], q[2]))

(* The constraints of one timestep on the meter variables *)
MeterStepOK(t, q, imp, exp, y) ==
    /\ MeterNonNegOK(imp, exp)
    /\ BalanceOK(t, q[1], q[2], imp, exp)
    /\ BigMOK(imp, exp, y)

(* Battery variables alone: the assignments of charge, discharge and soc   *)
(* satisfying lines 81-104                                                 *)
RECURSIVE BatteryTrajectories(_)
BatteryTrajectories(t) ==
    IF t = 0
    THEN { [p_charge |-> <<>>, p_discharge |-> <<>>, soc |-> <<s0>>] :
           s0 \in {c \in Soc0Cands : InitialSocOK(c)} }
    ELSE UNION { { [p_charge |-> Append(a.p_charge, q[1]),
                    p_discharge |-> Append(a.p_discharge, q[2]),
                    soc |-> Append(a.soc, SocNext(a.soc[t], q[1], q[2]))] :
                   q \in {g \in grid : BatteryStepOK(t, a.soc[t], g)} } :
                 a \in BatteryTrajectories(t - 1) }

BatteryDispatches == {a \in BatteryTrajectories(T) : FinalSocOK(a.soc[T + 1])}

Extend(a, t) ==
    LET s == a.soc[t]
        n(q) == load_data[t] - pv_data[t] + q[1] - q[2]
    IN  { [p_charge |-> Append(a.p_charge, q[1]),
           p_discharge |-> Append(a.p_discharge, q[2]),
           p_gridimport |-> Append(a.p_gridimport, m[1]),
           p_gridexport |-> Append(a.p_gridexport, m[2]),
           y |-> Append(a.y, m[3]),
           soc |-> Append(a.soc, SocNext(s, q[1], q[2]))] :
          <<q, m>> \in
            UNION { {<<qq, mm>> :
                       mm \in {k \in MeterCands(n(qq)) \X MeterCands(n(qq)) \X {0, 1} :
                                  MeterStepOK(t, qq, k[1], k[2], k[3])}} :
                    qq \in {g \in grid : BatteryStepOK(t, s, g)} } }

RECURSIVE Trajectories(_)
Trajectories(t) ==
    IF t = 0
    THEN { [p_charge |-> <<>>, p_discharge |-> <<>>, p_gridimport |-> <<>>,
            p_gridexport |-> <<>>, y |-> <<>>, soc |-> <<s0>>] :
           s0 \in {c \in Soc0Cands : InitialSocOK(c)} }
    ELSE UNION { Extend(a, t) : a \in Trajectories(t - 1) }

(* Assignments of the battery and meter variables satisfying lines 81-120 *)
Dispatches == {a \in Trajectories(T) : FinalSocOK(a.soc[T + 1])}

(* lines 81-120 as a predicate on an assignment *)
DispatchOK(a) ==
    /\ InitialSocOK(a.soc[1])
    /\ \A t \in 1..T :
          /\ BatteryStepOK(t, a.soc[t], <<a.p_charge[t], a.p_discharge[t]>>)
          /\ a.soc[t + 1] = SocNext(a.soc[t], a.p_charge[t], a.p_discharge[t])
          /\ a.y[t] \in {0, 1}
          /\ MeterStepOK(t, <<a.p_charge[t], a.p_discharge[t]>>, a.p_gridimport[t],
                         a.p_gridexport[t], a.y[t])
    /\ FinalSocOK(a.soc[T + 1])

WithM(a, m) ==
    [has |-> TRUE, p_charge |-> a.p_charge, p_discharge |-> a.p_discharge,
     p_gridimport |-> a.p_gridimport, p_gridexport |-> a.p_gridexport,
     soc |-> a.soc, M |-> m, y |-> a.y]

(* Every assignment satisfying all constraints of the program *)
FeasibleSet ==
    UNION { {WithM(a, m) : m \in {k \in MCands(a) : DemandOK(a, k)}} :
            a \in Dispatches }

(* lines 123-129, multiplied by delta_t_den *)
Objective(a) ==
    prices.import_cost * SeqSum(a.p_gridimport)
    + delta_t_den * prices.demand_charge * a.M
    - SeqSum([t \in 1..T |-> prob.export_revenue_array[t] * a.p_gridexport[t]])

OptimalSet(F) ==
    LET objs == {Objective(b) : b \in F}
        best == CHOOSE o \in objs : \A p \in objs : o <= p
    IN  {a \in F : Objective(a) = best}

(* M is the only variable without an upper bound (charge, discharge <=     *)
(* max_power, import, export <= M_val, soc <= capacity), so a feasible     *)
(* program is unbounded exactly when the coefficient of M is negative.     *)
IsUnbounded(F) == F # {} /\ prices.demand_charge < 0

(* (status, values) pairs prob.solve can leave behind.  "other" stands for *)
(* the remaining cvxpy statuses (optimal_inaccurate, user_limit, ...),     *)
(* reported with no values or with a feasible incumbent.                   *)
SolverOutcomes ==
    LET F == FeasibleSet
    IN  IF F = {}
        THEN {[status |-> "infeasible", values |-> NoValues],
              [status |-> "other", values |-> NoValues]}
        ELSE IF IsUnbounded(F)
        THEN {[status |-> "unbounded", values |-> NoValues],
              [status |-> "other", values |-> NoValues]}
        ELSE {[status |-> "optimal", values |-> a] : a \in OptimalSet(F)}
             \cup {[status |-> "other", values |-> a] : a \in F}
             \cup {[status |-> "other", values |-> NoValues]}

-----------------------------------------------------------------------------
(* Result extraction: solve lines 137-151 *)

RoundUnit == PowerScale \div (10 ^ decimals)

(* np.round(x, 3) of an exact value: nearest multiple of 0.001, ties to even *)
np_round(x) ==
    LET q == x \div RoundUnit
        r == x % RoundUnit
    IN  IF 2 * r < RoundUnit THEN q
        ELSE IF 2 * r > RoundUnit THEN q + 1
        ELSE IF q % 2 = 0 THEN q ELSE q + 1

(* a value with three decimals, back in power units *)
FromMilli(v) == v * RoundUnit

Extract(v) ==
    [has |-> TRUE,
     battery_power |->
        [t \in 1..T |->
            np_round(FromMilli(np_round(v.p_discharge[t]) - np_round(v.p_charge[t])))],
     meter |->
        [t \in 1..T |->
            np_round(FromMilli(np_round(v.p_gridimport[t]) - np_round(v.p_gridexport[t])))]]

(* Optimizer.solve *)
Solve ==
    /\ pc = "built"
    /\ \E out \in SolverOutcomes :
          /\ status' = out.status
          /\ values' = out.values
          /\ IF out.status \notin {"infeasible", "unbounded"}
             THEN IF out.values.has
                  THEN /\ schedule' = Extract(out.values)
                       /\ error' = error
                       /\ pc' = "returned"
                  ELSE \* np.round(None, 3)
                       /\ schedule' = schedule
                       /\ error' = [kind |-> "TypeError", message |-> "round"]
                       /\ pc' = "raised"
             ELSE /\ schedule' = schedule
                  /\ error' = [kind |-> "ValueError", message |-> out.status]
                  /\ pc' = "raised"
    /\ UNCHANGED <<load_data, pv_data, prices, time_index, fields, prob, grid,
                   results_written>>

(* run_optimization, lines 31-37 *)
WriteResults ==
    /\ pc = "returned"
    /\ results_written' = TRUE
    /\ pc' = "written"
    /\ UNCHANGED <<load_data, pv_data, prices, time_index, fields, prob, grid,
                   status, values, schedule, error>>

-----------------------------------------------------------------------------
(* Inputs *)

Stamp(d, h, m) == [day |-> d, hh |-> h, mm |-> m]

Row(ts, ld, pv) == [ts |-> ts, load |-> ld, pv |-> pv]

Tariff(ic, er, dc, drr, dcs, dce, drs, dre) ==
    [import_cost |-> ic, export_revenue |-> er, demand_charge |-> dc,
     demand_response_revenue |-> drr,
     demand_charge_start |-> dcs, demand_charge_end |-> dce,
     demand_response_start |-> drs, demand_response_end |-> dre]

T1700 == <<1, 7, 0, 0>>
T1900 == <<1, 9, 0, 0>>
T2000 == <<2, 0, 0, 0>>
T2100 == <<2, 1, 0, 0>>

(* the configuration of main.py, lines 15-24 *)
MainTariff == Tariff(10, 3, 900, 1000, T1700, T2100, T1900, T2000)

Tariffs ==
    { MainTariff,
      [MainTariff EXCEPT !.export_revenue = 0],
      [MainTariff EXCEPT !.demand_charge = 0],
      [MainTariff EXCEPT !.demand_charge = 0 - 900],
      [MainTariff EXCEPT !.demand_charge_start = T2100, !.demand_charge_end = T1700] }

Rows ==
    { Row(Stamp(1, 16, 30), 1000, 0),
      Row(Stamp(1, 17, 0), 500, 0),
      Row(Stamp(1, 19, 0), 0, CycleIn),
      Row(Stamp(1, 12, 0), 0, CycleIn),
      Row(Stamp(1, 17, 0), 0 - 300 * PowerScale, 0) }

Sunny == Row(Stamp(1, 12, 0), 0, 60 * PowerScale)
Dark == Row(Stamp(1, 18, 0), 1000, 0)

BuildTimes == {T1700, T1900, T2000}

BuildStamps == {Stamp(d, tm[1], tm[2]) :
                  d \in {1, 2}, tm \in {<<17, 0>>, <<18, 30>>, <<19, 0>>, <<20, 0>>}}

BuildTariffs ==
    { Tariff(10, er, 900, 1000, dcs, dce, drs, dre) :
        er \in {0, 3}, dcs \in BuildTimes, dce \in BuildTimes,
        drs \in BuildTimes, dre \in BuildTimes }

InitWith(series, tariff, g) ==
    /\ load_data = [i \in 1..Len(series) |-> series[i].load]
    /\ pv_data = [i \in 1..Len(series) |-> series[i].pv]
    /\ time_index = [i \in 1..Len(series) |-> series[i].ts]
    /\ prices = tariff
    /\ grid = g
    /\ fields = {}
    /\ prob = NoProb
    /\ status = "none"
    /\ values = NoValues
    /\ schedule = NoSchedule
    /\ error = NoError
    /\ results_written = FALSE
    /\ pc = "new"

(* Short horizons, all tariffs, sub-milli-kW solver values *)
Init ==
    \E n \in 0..MaxT : \E series \in [1..n -> Rows] : \E tariff \in Tariffs :
        InitWith(series, tariff, FinePairs)

Next == Build \/ Solve \/ WriteResults

Spec == Init /\ [][Next]_vars

(* Long horizons: a sunny first half followed by a dark one, full-power    *)
(* solver values                                                           *)
InitLong ==
    \E n \in 1..MaxLongT :
        InitWith([i \in 1..n |-> IF 2 * i <= n THEN Sunny ELSE Dark], MainTariff, LongPairs)

SpecLong == InitLong /\ [][Next]_vars

(* Model construction alone, over all window boundaries and nonempty series *)
InitBuild ==
    \E n \in 1..MaxT : \E stamps \in [1..n -> BuildStamps] : \E tariff \in BuildTariffs :
        InitWith([i \in 1..n |-> Row(stamps[i], 1000, CycleIn)], tariff, FinePairs)

NextBuild == Build

SpecBuild == InitBuild /\ [][NextBuild]_vars

-----------------------------------------------------------------------------
(* Properties *)

Solved == pc \in {"returned", "raised", "written"}

Net(v, t) == load_data[t] - pv_data[t] + v.p_charge[t] - v.p_discharge[t]

Pos(n) == IF n > 0 THEN n ELSE 0

(* C1: for every solver status other than optimal, solve extracts nothing  *)
(* and returns no schedule, fails with an error carrying the raw status,   *)
(* and no results file is written.                                         *)
C1_NoScheduleUnlessOptimal ==
    (Solved /\ status # "optimal") =>
        /\ schedule = NoSchedule
        /\ error = [kind |-> "ValueError", message |-> status]
        /\ ~results_written

(* C2: in every assignment satisfying the constraints, soc[0] = 0,         *)
(* soc[T] = 0, 0 <= soc[t] <= capacity for t in 0..T, and soc follows      *)
(* soc[t+1] = soc[t] + eta_charge*charge[t]*dt - discharge[t]*dt/eta_dis.  *)
C2_SocTrajectory ==
    values.has =>
        /\ Len(values.soc) = T + 1
        /\ values.soc[1] = 0
        /\ values.soc[T + 1] = 0
        /\ \A i \in 1..(T + 1) : 0 <= values.soc[i] /\ values.soc[i] <= CapacityU
        /\ \A t \in 1..T :
              values.soc[t + 1] - values.soc[t] =
                  CycleOut * values.p_charge[t] - CycleIn * values.p_discharge[t]

(* C2 witness: a solved trajectory that fills the battery so far that one  *)
(* more full-power charge step would exceed the capacity.                  *)
C2_Witness ==
    /\ values.has
    /\ \E i \in 1..(T + 1) : values.soc[i] + CycleOut * MaxPowerU > CapacityU

(* C3: in every assignment satisfying the constraints, for every t,        *)
(* 0 <= charge[t] <= min(max_power, PV[t]) and 0 <= discharge[t] <=        *)
(* max_power.                                                              *)
C3_PowerLimits ==
    values.has =>
        \A t \in 1..T :
            /\ 0 <= values.p_charge[t]
            /\ values.p_charge[t] <= MaxPowerU
            /\ values.p_charge[t] <= pv_data[t]
            /\ 0 <= values.p_discharge[t]
            /\ values.p_discharge[t] <= MaxPowerU

(* C3 witness: a solved assignment charging at max_power in one step and   *)
(* discharging in a step without PV.                                       *)
C3_Witness ==
    /\ values.has
    /\ \E t \in 1..T : values.p_charge[t] = MaxPowerU
    /\ \E t \in 1..T : pv_data[t] = 0 /\ values.p_discharge[t] > 0

(* C4: in every assignment satisfying the constraints no timestep imports  *)
(* and exports at once, and import_part = max(net, 0), export_part =       *)
(* max(-net, 0) with net = load - PV + charge - discharge.                 *)
C4_ExclusiveMeter ==
    values.has =>
        \A t \in 1..T :
            /\ ~(values.p_gridimport[t] > 0 /\ values.p_gridexport[t] > 0)
            /\ values.p_gridimport[t] - values.p_gridexport[t] = Net(values, t)
            /\ values.p_gridimport[t] = Pos(Net(values, t))
            /\ values.p_gridexport[t] = Pos(0 - Net(values, t))

(* C4 witness: a solved assignment importing in one step and exporting in  *)
(* another.                                                                *)
C4_Witness ==
    /\ values.has
    /\ \E t \in 1..T : values.p_gridimport[t] > 0
    /\ \E t \in 1..T : values.p_gridexport[t] > 0

MinuteOfDay(ts) == 60 * ts.hh + ts.mm

MinuteOfString(s) == 60 * (10 * s[1] + s[2]) + 10 * s[3] + s[4]

InsideByMinute(ts, start, end) ==
    MinuteOfString(start) <= MinuteOfDay(ts) /\ MinuteOfDay(ts) < MinuteOfString(end)

InDemandWindow(t) ==
    InsideByMinute(time_index[t], prices.demand_charge_start, prices.demand_charge_end)

InDRWindow(t) ==
    InsideByMinute(time_index[t], prices.demand_response_start,
                   prices.demand_response_end)

(* the maximum import over the timesteps in the demand-charge window, 0    *)
(* when there is none                                                      *)
WindowPeak(v) ==
    LET c == {0} \cup {v.p_gridimport[t] : t \in {u \in 1..T : InDemandWindow(u)}}
    IN  CHOOSE m \in c : \A k \in c : m >= k

(* C5 as stated: M >= import_part[t] for t in the demand-charge window in  *)
(* every feasible assignment, and M equals the maximum import over the     *)
(* window in every optimal solution.                                       *)
C5_Original ==
    values.has =>
        /\ \A t \in 1..T : InDemandWindow(t) => values.M >= values.p_gridimport[t]
        /\ status = "optimal" => values.M = WindowPeak(values)

(* C5 amended: M >= import_part[t] for t in the demand-charge window in    *)
(* every feasible assignment, and in every optimal solution of a program   *)
(* whose demand_charge rate is positive M equals the maximum import over   *)
(* the window (0 when no timestep lies in the window).                     *)
C5_PeakWhenCharged ==
    values.has =>
        /\ \A t \in 1..T : InDemandWindow(t) => values.M >= values.p_gridimport[t]
        /\ (status = "optimal" /\ prices.demand_charge > 0) =>
               values.M = WindowPeak(values)

(* C5 witness: an optimal solution under a positive rate whose windowed    *)
(* peak import is positive and smaller than an import outside the window.  *)
C5_Witness ==
    /\ values.has
    /\ status = "optimal"
    /\ prices.demand_charge > 0
    /\ values.M > 0
    /\ \E t \in 1..T : InDemandWindow(t) /\ values.p_gridimport[t] = values.M
    /\ \E t \in 1..T : ~InDemandWindow(t) /\ values.p_gridimport[t] > values.M

(* C6: the export price is export_revenue + demand_response_revenue for    *)
(* every timestep inside the demand-response window and export_revenue for *)
(* every timestep outside it.                                              *)
C6_ExportPrice ==
    prob.set =>
        /\ Len(prob.export_revenue_array) = T
        /\ \A t \in 1..T :
              prob.export_revenue_array[t] =
                  IF InDRWindow(t)
                  THEN prices.export_revenue + prices.demand_response_revenue
                  ELSE prices.export_revenue

(* C6 witness: a built program with one timestep inside and one outside    *)
(* the demand-response window, and a positive export_revenue.              *)
C6_Witness ==
    /\ prob.set
    /\ prices.export_revenue > 0
    /\ \E t \in 1..T : InDRWindow(t)
    /\ \E t \in 1..T : ~InDRWindow(t)

(* C7: both masks have length T, and timestep t is in a window iff         *)
(* start <= time_of_day[t] < end, whatever the date; a window with         *)
(* end <= start contains no timestep.                                      *)
C7_HalfOpenWindows ==
    prob.set =>
        /\ Len(prob.in_demand_window) = T
        /\ Len(prob.in_dr_window) = T
        /\ \A t \in 1..T :
              /\ prob.in_demand_window[t] = InDemandWindow(t)
              /\ prob.in_dr_window[t] = InDRWindow(t)
        /\ MinuteOfString(prices.demand_charge_end)
             <= MinuteOfString(prices.demand_charge_start)
               => \A t \in 1..T : ~prob.in_demand_window[t]
        /\ MinuteOfString(prices.demand_response_end)
             <= MinuteOfString(prices.demand_response_start)
               => \A t \in 1..T : ~prob.in_dr_window[t]
        /\ \A t, u \in 1..T :
              MinuteOfDay(time_index[t]) = MinuteOfDay(time_index[u])
                => /\ prob.in_demand_window[t] = prob.in_demand_window[u]
                   /\ prob.in_dr_window[t] = prob.in_dr_window[u]

(* C7 witness: a built program with a timestamp at the start of the        *)
(* demand-charge window (inside) and one on another day at its end         *)
(* (outside).                                                              *)
C7_Witness ==
    /\ prob.set
    /\ \E t, u \in 1..T :
          /\ time_index[t].day # time_index[u].day
          /\ MinuteOfDay(time_index[t]) = MinuteOfString(prices.demand_charge_start)
          /\ MinuteOfDay(time_index[u]) = MinuteOfString(prices.demand_charge_end)
          /\ prob.in_demand_window[t]
          /\ ~prob.in_demand_window[u]

BadConfiguration ==
    \/ T = 0
    \/ MinuteOfString(prices.demand_charge_end)
         <= MinuteOfString(prices.demand_charge_start)
    \/ MinuteOfString(prices.demand_response_end)
         <= MinuteOfString(prices.demand_response_start)

(* C8: given a window with end <= start or an empty series, build_model    *)
(* fails before any variable or constraint is created: no model field is   *)
(* set and no program is produced.                                         *)
C8_FailFast ==
    (pc # "new" /\ BadConfiguration) =>
        /\ pc = "build_failed"
        /\ fields = {}
        /\ ~prob.set

NonNegativeSeries == \A t \in 1..T : load_data[t] >= 0 /\ pv_data[t] >= 0

(* C9: for nonnegative load and PV, every assignment satisfying the shared *)
(* constraints (SOC dynamics and bounds, power caps, charge <= PV, meter   *)
(* balance) admits for each t a binary y[t] with max(net, 0) <= BIG_M*y[t] *)
(* and max(-net, 0) <= BIG_M*(1 - y[t]), and the assignment with that      *)
(* split satisfies the exclusive-mode constraints.                         *)
C9_BigMNeverCuts ==
    (pc = "built" /\ NonNegativeSeries) =>
        \A a \in BatteryDispatches :
            /\ \A t \in 1..T :
                  \E yy \in {0, 1} :
                      /\ Pos(Net(a, t)) <= prob.M_val * yy
                      /\ Pos(0 - Net(a, t)) <= prob.M_val * (1 - yy)
            /\ DispatchOK([p_charge |-> a.p_charge,
                           p_discharge |-> a.p_discharge,
                           soc |-> a.soc,
                           p_gridimport |-> [t \in 1..T |-> Pos(Net(a, t))],
                           p_gridexport |-> [t \in 1..T |-> Pos(0 - Net(a, t))],
                           y |-> [t \in 1..T |-> IF Net(a, t) > 0 THEN 1 ELSE 0]])

(* C9 witness: a built program with nonnegative series and a dispatch      *)
(* satisfying the shared constraints that discharges while PV is produced, *)
(* exporting more than max(load) and max(PV).                              *)
C9_Witness ==
    /\ pc = "built"
    /\ NonNegativeSeries
    /\ \E a \in BatteryDispatches :
          \E t \in 1..T :
              /\ a.p_discharge[t] > 0
              /\ 0 - Net(a, t) > Max2(SeqMax(load_data), SeqMax(pv_data))

(* C10: for every solved assignment the schedule reports battery_power[t]  *)
(* = (discharge[t] - charge[t]) rounded to 3 decimals and meter[t] =       *)
(* (import_part[t] - export_part[t]) rounded to 3 decimals, rounding once  *)
(* the difference of the unrounded values.                                 *)
C10_RoundOnce ==
    (schedule.has /\ status = "optimal") =>
        \A t \in 1..T :
            /\ schedule.battery_power[t] =
                   np_round(values.p_discharge[t] - values.p_charge[t])
            /\ schedule.meter[t] =
                   np_round(values.p_gridimport[t] - values.p_gridexport[t])

=============================================================================
